---- MODULE Spec2Model ----
(***************************************************************************)
(* A model of src/src/App.tsx: the peer-to-peer chat controller.           *)
(*                                                                         *)
(* The component's state (useState / useRef), its effects and its event    *)
(* handlers are the variables and actions below.  The transport (PeerJS)   *)
(* and the crypto library (openpgp) are collaborators: the transport is    *)
(* modelled by the connections it has created and the events it may emit   *)
(* on them, the crypto library by deterministic functions over armored     *)
(* strings.  Every callback runs to completion (one JavaScript task), so   *)
(* each is one action; an async function is split at its awaits where the  *)
(* code reads shared state again after the await.                          *)
(***************************************************************************)
EXTENDS Naturals, Sequences, FiniteSets, TLC

(* ------------------------------ bounds -------------------------------- *)
\* connections the transport creates in one run (outgoing and incoming)
MaxConns == 2
\* chat entries, plus suspended calls that may each add one, in a run of the
\* whole controller (Spec)
MaxLifeMsgs == 1
\* the same in a run of the message handlers on one connection (SpecMsg)
MaxMsgs == 2
\* timers of handleCopyPeerId pending at a time
MaxCopyTimers == 1

(* --------------------------- value domains ----------------------------- *)
\* connectionRef.current === null
NoConn == 0
ConnIds == 1..MaxConns

\* fingerprints of the remote parties a connection can lead to
RemoteIds == {"fpR"}
\* what the user can type into the target field
TargetInputs == {"", " fpR"}
\* what the user can type into the composer
ComposerInputs == {" ", " hi"}
\* messages an error event of a connection, and of the endpoint, can carry
ConnErrorMessages == {"", "channel lost"}
PeerErrorMessages == {"", "peer unavailable"}

\* String.prototype.trim on the strings of this model
Trim(s) ==
    CASE s = " " -> ""
      [] s = " fpR" -> "fpR"
      [] s = " hi" -> "hi"
      [] OTHER -> s

(* ------------------------ crypto collaborator -------------------------- *)
\* key identities: L is the local key, R the remote party's, X a third party's
KeyIds == {"L", "R", "X"}
PublicArmored(k) == "pub" \o k
PrivateArmored(k) == "priv" \o k
\* publicKey.getFingerprint()
Fingerprint(k) == "fp" \o k
\* openpgp.sign(..., detached, armored): deterministic in key and text
Sign(k, text) == "sig(" \o k \o "," \o text \o ")"
SignedTexts == {"", "hi", "yo"}

\* openpgp.readKey / readPrivateKey / readSignature succeed on armored blobs only
IsPublicArmored(s) == \E k \in KeyIds : s = PublicArmored(k)
IsPrivateArmored(s) == \E k \in KeyIds : s = PrivateArmored(k)
IsSignatureArmored(s) == \E k \in KeyIds, t \in SignedTexts : s = Sign(k, t)
KeyOfPublic(s) == CHOOSE k \in KeyIds : s = PublicArmored(k)
KeyOfPrivate(s) == CHOOSE k \in KeyIds : s = PrivateArmored(k)

(* ------------------------- payloads on the wire ------------------------ *)
\* a JavaScript value held by a field of a received object
Undefined == [t |-> "undefined", v |-> ""]
Str(s) == [t |-> "string", v |-> s]
Num(s) == [t |-> "number", v |-> s]
\* !x is false
Truthy(x) == x.t # "undefined" /\ x.v # "" /\ x.v # "0"

\* what a 'data' event carries: a string, null, or an object with fields
StringPayload(s) ==
    [kind |-> "string", str |-> s, text |-> Undefined,
     signature |-> Undefined, publicKey |-> Undefined]
NullPayload ==
    [kind |-> "null", str |-> "", text |-> Undefined,
     signature |-> Undefined, publicKey |-> Undefined]
ObjectPayload(text, signature, publicKey) ==
    [kind |-> "object", str |-> "", text |-> text, signature |-> signature,
     publicKey |-> publicKey]

\* a WireMessage: an object whose three fields are strings
WireMessage(text, signature, publicKey) ==
    ObjectPayload(Str(text), Str(signature), Str(publicKey))

\* mutant: the signature is made over an empty message
Encode_SignsNothing(kp, text) ==
    WireMessage(text, Sign(KeyOfPrivate(kp.privateKeyArmored), ""),
                kp.publicKeyArmored)

\* handleSendMessage's try block up to the payload: the private key is read,
\* the text signed detached, and the envelope built
Encode(kp, text) ==
    WireMessage(text, Sign(KeyOfPrivate(kp.privateKeyArmored), text),
                kp.publicKeyArmored)

\* the keypair generateKey returns to the party with key k
StoredKeypair(k) ==
    [publicKeyArmored |-> PublicArmored(k),
     privateKeyArmored |-> PrivateArmored(k)]

\* the envelope a party running this program with key k sends for text
EnvelopeFrom(k, text) == Encode(StoredKeypair(k), text)

\* JSON.stringify of a received object
FieldJson(name, x) ==
    CASE x.t = "undefined" -> ""
      [] x.t = "string" -> name \o ":'" \o x.v \o "';"
      [] OTHER -> name \o ":" \o x.v \o ";"
Stringify(p) ==
    "{" \o FieldJson("text", p.text) \o FieldJson("signature", p.signature)
        \o FieldJson("publicKey", p.publicKey) \o "}"

\* the payloads the remote side sends in a run of the whole controller
LifePayloads == { EnvelopeFrom("R", "hi") }

\* the payloads the remote side sends in a run of the message handlers
DataPayloads ==
    { StringPayload("hi"),
      NullPayload,
      EnvelopeFrom("R", "hi"),
      EnvelopeFrom("X", "hi"),
      EnvelopeFrom("R", ""),
      WireMessage("yo", Sign("R", "hi"), PublicArmored("R")),
      WireMessage("hi", Sign("X", "hi"), PublicArmored("R")),
      WireMessage("hi", "garbage", PublicArmored("R")),
      WireMessage("hi", Sign("R", "hi"), "garbage"),
      WireMessage("hi", "", PublicArmored("R")),
      ObjectPayload(Str("hi"), Undefined, Str(PublicArmored("R"))),
      ObjectPayload(Num("5"), Str(Sign("R", "hi")), Str(PublicArmored("R"))) }

(* ------------------------------ state ---------------------------------- *)
VARIABLES
    nodeEnv,        \* process.env.NODE_ENV: "test" or "production"
    keysPc,         \* initKeys: "start", "generating", "done", "failed"
    keypair,        \* useState keypair: NoKeypair or the stored pair
    peerId,         \* useState peerId
    peerRef,        \* peerRef.current !== null
    peerReady,      \* useState peerReady
    targetPeerId,   \* useState targetPeerId
    isConnected,    \* useState isConnected
    isConnecting,   \* useState isConnecting
    statusMessage,  \* useState statusMessage
    connectionRef,  \* connectionRef.current: NoConn or a connection
    conns,          \* the transport's connections: state, peer, close() called
    messages,       \* useState messages: the chat log
    pendingVerify,  \* handleIncoming calls suspended at an await
    pendingSend,    \* handleSendMessage calls suspended at an await
    received,       \* the 'data' events so far: connection, payload (history)
    wire,           \* calls of connection.send so far (history)
    copyTimers,     \* setTimeout callbacks of handleCopyPeerId not yet run
    attachLog       \* per attached connection: what it replaced (history)

connVars == <<isConnected, isConnecting, statusMessage, connectionRef, conns>>
keyVars == <<nodeEnv, keysPc, keypair, peerId>>
msgVars == <<messages, pendingVerify, pendingSend, received, wire>>
vars == <<nodeEnv, keysPc, keypair, peerId, peerRef, peerReady, targetPeerId,
          isConnected, isConnecting, statusMessage, connectionRef, conns,
          messages, pendingVerify, pendingSend, received, wire,
          copyTimers, attachLog>>

NoKeypair == [publicKeyArmored |-> "none", privateKeyArmored |-> "none"]
NoConnection == [st |-> "none", peer |-> "", closeCalled |-> FALSE]
NoAttach == [attached |-> FALSE, prev |-> NoConn, prevOpen |-> FALSE,
             prevClosed |-> FALSE]

Init ==
    /\ nodeEnv \in {"test", "production"}
    /\ keysPc = "start"
    /\ keypair = NoKeypair
    /\ peerId = ""
    /\ peerRef = FALSE
    /\ peerReady = FALSE
    /\ targetPeerId = ""
    /\ isConnected = FALSE
    /\ isConnecting = FALSE
    /\ statusMessage = ""
    /\ connectionRef = NoConn
    /\ conns = [c \in ConnIds |-> NoConnection]
    /\ messages = <<>>
    /\ pendingVerify = {}
    /\ pendingSend = {}
    /\ received = <<>>
    /\ wire = {}
    /\ copyTimers = 0
    /\ attachLog = [c \in ConnIds |-> NoAttach]

(* ------------------- the controller's synchronous steps ---------------- *)
\* The part of the component a connection callback reads and writes, as a
\* record, so that callbacks that run inside another callback compose.
Ctl ==
    [connectionRef |-> connectionRef, isConnected |-> isConnected,
     isConnecting |-> isConnecting, statusMessage |-> statusMessage,
     conns |-> conns]

Commit(s) ==
    /\ connectionRef' = s.connectionRef
    /\ isConnected' = s.isConnected
    /\ isConnecting' = s.isConnecting
    /\ statusMessage' = s.statusMessage
    /\ conns' = s.conns

\* connection.on('open')
OnOpen(s) ==
    [s EXCEPT !.isConnected = TRUE, !.isConnecting = FALSE,
              !.statusMessage = ""]

\* connection.on('close')
OnClose(s) ==
    [s EXCEPT !.isConnected = FALSE, !.isConnecting = FALSE,
              !.statusMessage = "Connection closed.",
              !.connectionRef = NoConn]

\* mutant: the handle is kept
OnError_KeepsHandle(s, msg) ==
    [s EXCEPT !.isConnected = FALSE, !.isConnecting = FALSE,
              !.statusMessage = IF msg # "" THEN msg ELSE "Connection error."]

\* connection.on('error')
OnError(s, msg) ==
    [s EXCEPT !.isConnected = FALSE, !.isConnecting = FALSE,
              !.statusMessage = IF msg # "" THEN msg ELSE "Connection error.",
              !.connectionRef = NoConn]

\* DataConnection.close(): an open connection stops being open and emits
\* 'close' at once; one that never opened is torn down without an event.
Close(s, c) ==
    LET t == [s EXCEPT !.conns[c].st = IF @ = "none" THEN @ ELSE "closed",
                       !.conns[c].closeCalled = TRUE]
    IN IF s.conns[c].st = "open" THEN OnClose(t) ELSE t

\* connectionRef.current && connectionRef.current.open
RefOpen(s) == s.connectionRef # NoConn /\ s.conns[s.connectionRef].st = "open"

\* mutant: the guarded close left out
CloseIfOpen_Skipped(s) == s

\* if (connectionRef.current && connectionRef.current.open) close()
CloseIfOpen(s) ==
    IF RefOpen(s)
    THEN Close(s, s.connectionRef)
    ELSE s

\* mutant: an undefined connection leaves the connecting flag set
attachConnection_StaysConnecting(s, c) ==
    IF c = NoConn
    THEN [s EXCEPT !.statusMessage = "Connection failed to start."]
    ELSE [s EXCEPT !.connectionRef = c]

\* attachConnection: c = NoConn stands for an undefined connection
attachConnection(s, c) ==
    IF c = NoConn
    THEN [s EXCEPT !.statusMessage = "Connection failed to start.",
                   !.isConnecting = FALSE]
    ELSE [s EXCEPT !.connectionRef = c]

\* the first connection the transport has not created yet
FreeConns == {c \in ConnIds : conns[c].st = "none"}
NewConn == CHOOSE c \in FreeConns : \A d \in FreeConns : c <= d

\* the transport creates connection c towards peer p (not yet open)
Created(s, c, p) ==
    [s EXCEPT !.conns[c] = [st |-> "connecting", peer |-> p,
                            closeCalled |-> FALSE]]

\* history: what connection c replaced, seen from the state `before` the
\* callback and the state `at` the moment attachConnection is reached
LogAttach(c, before, at) ==
    LET prev == before.connectionRef
    IN attachLog' = [attachLog EXCEPT ![c] =
        [attached |-> TRUE, prev |-> prev,
         prevOpen |-> prev # NoConn /\ before.conns[prev].st = "open",
         prevClosed |-> prev # NoConn /\ at.conns[prev].closeCalled]]

(* ------------------------------ key setup ------------------------------ *)
\* useEffect(() => { initKeys() }, []) up to its first await
InitKeys ==
    /\ keysPc = "start"
    /\ IF nodeEnv = "test"
       THEN /\ keypair' = [publicKeyArmored |-> "", privateKeyArmored |-> ""]
            /\ peerId' = "test-peer"
            /\ statusMessage' = ""
            /\ keysPc' = "done"
       ELSE /\ statusMessage' = "Generating keys..."
            /\ keysPc' = "generating"
            /\ UNCHANGED <<keypair, peerId>>
    /\ UNCHANGED <<nodeEnv, peerRef, peerReady, targetPeerId, isConnected,
                   isConnecting, connectionRef, conns, attachLog>>
    /\ UNCHANGED <<msgVars, copyTimers>>

\* initKeys after generateKey and readKey settled: ok, or either one rejected
KeysSettled ==
    /\ keysPc = "generating"
    /\ \E ok \in BOOLEAN :
        IF ok
        THEN /\ keypair' = StoredKeypair("L")
             /\ peerId' = Fingerprint(KeyOfPublic(PublicArmored("L")))
             /\ statusMessage' = ""
             /\ keysPc' = "done"
        ELSE /\ statusMessage' = "Key setup failed."
             /\ keysPc' = "failed"
             /\ UNCHANGED <<keypair, peerId>>
    /\ UNCHANGED <<nodeEnv, peerRef, peerReady, targetPeerId, isConnected,
                   isConnecting, connectionRef, conns, attachLog>>
    /\ UNCHANGED <<msgVars, copyTimers>>

(* ------------------------------ endpoint ------------------------------- *)
\* mutant: the endpoint is created without an identifier
CreatePeer_WithoutIdentifier ==
    /\ nodeEnv # "test"
    /\ ~peerRef
    /\ peerRef' = TRUE
    /\ peerReady' = FALSE
    /\ UNCHANGED <<keyVars, targetPeerId, connVars, attachLog>>
    /\ UNCHANGED <<msgVars, copyTimers>>

\* useEffect(..., [peerId]): new Peer(peerId)
CreatePeer ==
    /\ nodeEnv # "test"
    /\ peerId # ""
    /\ ~peerRef
    /\ peerRef' = TRUE
    /\ peerReady' = FALSE
    /\ UNCHANGED <<keyVars, targetPeerId, connVars, attachLog>>
    /\ UNCHANGED <<msgVars, copyTimers>>

\* peer.on('open')
PeerOpen ==
    /\ peerRef
    /\ ~peerReady
    /\ peerReady' = TRUE
    /\ UNCHANGED <<keyVars, peerRef, targetPeerId, connVars, attachLog>>
    /\ UNCHANGED <<msgVars, copyTimers>>

\* peer.on('error')
PeerError(msg) ==
    /\ peerRef
    /\ statusMessage' = IF msg # "" THEN msg ELSE "Peer error."
    /\ UNCHANGED <<keyVars, peerRef, peerReady, targetPeerId, isConnected,
                   isConnecting, connectionRef, conns, attachLog>>
    /\ UNCHANGED <<msgVars, copyTimers>>

\* peer.on('connection'): an inbound offer from remote party p
PeerConnection(p) ==
    /\ peerRef
    /\ peerReady
    /\ FreeConns # {}
    /\ LET c == NewConn
           s0 == Created(Ctl, c, p)
           s1 == CloseIfOpen(s0)
           s2 == [s1 EXCEPT !.isConnecting = FALSE]
       IN /\ Commit(attachConnection(s2, c))
          /\ LogAttach(c, s0, s2)
          /\ targetPeerId' = p
    /\ UNCHANGED <<keyVars, peerRef, peerReady>>
    /\ UNCHANGED <<msgVars, copyTimers>>

(* --------------------------- user operations --------------------------- *)
\* onChange of the target input
SetTarget(v) ==
    /\ targetPeerId # v
    /\ targetPeerId' = v
    /\ UNCHANGED <<keyVars, peerRef, peerReady, connVars, attachLog>>
    /\ UNCHANGED <<msgVars, copyTimers>>

\* handleConnect, its first guard failing
HandleConnectIgnored ==
    /\ ~peerRef \/ Trim(targetPeerId) = ""
    /\ UNCHANGED <<keyVars, peerRef, peerReady, targetPeerId, connVars,
                   attachLog>>
    /\ UNCHANGED <<msgVars, copyTimers>>

\* handleConnect, the endpoint not ready
HandleConnectNotReady ==
    /\ peerRef /\ Trim(targetPeerId) # ""
    /\ ~peerReady
    /\ statusMessage' = "Peer not ready yet."
    /\ UNCHANGED <<keyVars, peerRef, peerReady, targetPeerId, isConnected,
                   isConnecting, connectionRef, conns, attachLog>>
    /\ UNCHANGED <<msgVars, copyTimers>>

\* handleConnect past its guards; got = FALSE: peer.connect returned undefined
HandleConnect(got) ==
    /\ peerRef /\ Trim(targetPeerId) # ""
    /\ peerReady
    /\ got => FreeConns # {}
    /\ LET s1 == CloseIfOpen(Ctl)
           s2 == [s1 EXCEPT !.isConnecting = TRUE, !.statusMessage = ""]
       IN IF got
          THEN /\ Commit(attachConnection(
                      Created(s2, NewConn, Trim(targetPeerId)), NewConn))
               /\ LogAttach(NewConn, Ctl, s2)
          ELSE /\ Commit(attachConnection(s2, NoConn))
               /\ UNCHANGED attachLog
    /\ UNCHANGED <<keyVars, peerRef, peerReady, targetPeerId>>
    /\ UNCHANGED <<msgVars, copyTimers>>

\* handleDisconnect
HandleDisconnect ==
    /\ LET s1 == IF connectionRef # NoConn THEN Close(Ctl, connectionRef)
                 ELSE Ctl
       IN Commit([s1 EXCEPT !.isConnected = FALSE, !.isConnecting = FALSE])
    /\ UNCHANGED <<keyVars, peerRef, peerReady, targetPeerId, attachLog>>
    /\ UNCHANGED <<msgVars, copyTimers>>

\* handleCopyPeerId without an identifier: it returns at once
HandleCopyPeerIdIgnored ==
    /\ peerId = ""
    /\ UNCHANGED <<keyVars, peerRef, peerReady, targetPeerId, connVars,
                   msgVars, copyTimers, attachLog>>

\* handleCopyPeerId with an identifier, after clipboard.writeText settled;
\* copied = FALSE: it rejected.  A success starts a two-second timer.
HandleCopyPeerId(copied) ==
    /\ peerId # ""
    /\ IF copied
       THEN /\ copyTimers < MaxCopyTimers
            /\ statusMessage' = "Peer ID copied."
            /\ copyTimers' = copyTimers + 1
       ELSE /\ statusMessage' = "Clipboard unavailable."
            /\ UNCHANGED copyTimers
    /\ UNCHANGED <<keyVars, peerRef, peerReady, targetPeerId, isConnected,
                   isConnecting, connectionRef, conns, msgVars, attachLog>>

\* setTimeout(() => setStatusMessage(''), 2000) of handleCopyPeerId fires
CopyTimeout ==
    /\ copyTimers > 0
    /\ copyTimers' = copyTimers - 1
    /\ statusMessage' = ""
    /\ UNCHANGED <<keyVars, peerRef, peerReady, targetPeerId, isConnected,
                   isConnecting, connectionRef, conns, msgVars, attachLog>>

(* -------------------------- connection events -------------------------- *)
\* the transport establishes connection c and emits 'open'
ConnOpen(c) ==
    /\ conns[c].st = "connecting"
    /\ Commit(OnOpen([Ctl EXCEPT !.conns[c].st = "open"]))
    /\ UNCHANGED <<keyVars, peerRef, peerReady, targetPeerId, attachLog>>
    /\ UNCHANGED <<msgVars, copyTimers>>

\* the remote side or the transport closes open connection c: 'close'
ConnClose(c) ==
    /\ conns[c].st = "open"
    /\ Commit(OnClose([Ctl EXCEPT !.conns[c].st = "closed"]))
    /\ UNCHANGED <<keyVars, peerRef, peerReady, targetPeerId, attachLog>>
    /\ UNCHANGED <<msgVars, copyTimers>>

\* the transport emits 'error' on connection c
ConnError(c, msg) ==
    /\ conns[c].st \in {"connecting", "open"}
    /\ Commit(OnError(Ctl, msg))
    /\ UNCHANGED <<keyVars, peerRef, peerReady, targetPeerId, attachLog>>
    /\ UNCHANGED <<msgVars, copyTimers>>

(* ------------------------------ messages ------------------------------- *)
\* addMessage: the entry appended to the log (id and timestamp left out);
\* seq is the 'data' event the entry stems from, 0 for a local entry
addMessage(log, sender, text, verified, seq) ==
    Append(log, [sender |-> sender, text |-> text, verified |-> verified,
                 seq |-> seq])

\* the number of 'data' events so far
delivered == Len(received)

\* entries in the log plus suspended calls that may still add one
Outstanding == Len(messages) + Cardinality(pendingVerify)
                   + Cardinality(pendingSend)

\* mutant: only the text field is tested
IsEnvelope_TextOnly(p) == p.kind = "object" /\ Truthy(p.text)

\* handleIncoming: the payload is a WireMessage candidate (all fields truthy)
IsEnvelope(p) ==
    /\ p.kind = "object"
    /\ Truthy(p.text) /\ Truthy(p.signature) /\ Truthy(p.publicKey)

\* mutant: the signature is checked against the key, not against the text
Verifies_AnyText(p) ==
    /\ p.text.t = "string"
    /\ p.signature.t = "string" /\ IsSignatureArmored(p.signature.v)
    /\ p.publicKey.t = "string" /\ IsPublicArmored(p.publicKey.v)
    /\ \E t \in SignedTexts :
           p.signature.v = Sign(KeyOfPublic(p.publicKey.v), t)

\* handleIncoming's try block runs through: createMessage, readSignature,
\* readKey and verify all accept, and the signature is the key's over text
Verifies(p) ==
    /\ p.text.t = "string"
    /\ p.signature.t = "string" /\ IsSignatureArmored(p.signature.v)
    /\ p.publicKey.t = "string" /\ IsPublicArmored(p.publicKey.v)
    /\ p.signature.v = Sign(KeyOfPublic(p.publicKey.v), p.text.v)

\* mutant: the fingerprint is never compared
FingerprintMismatch_Never(p, c) == FALSE

\* fingerprint !== connection.peer
FingerprintMismatch(p, c) ==
    Fingerprint(KeyOfPublic(p.publicKey.v)) # conns[c].peer

\* connection.on('data'): handleIncoming up to its first await
ConnData(c, p, limit) ==
    /\ conns[c].st = "open"
    /\ delivered < limit
    /\ Outstanding < limit
    /\ received' = Append(received, [conn |-> c, payload |-> p])
    /\ CASE p.kind = "string" ->
              /\ messages' = addMessage(messages, "peer", p.str, FALSE,
                                        delivered + 1)
              /\ UNCHANGED pendingVerify
         [] p.kind = "null" ->
              \* payload.text throws inside the async function
              UNCHANGED <<messages, pendingVerify>>
         [] p.kind = "object" /\ ~IsEnvelope(p) ->
              /\ messages' = addMessage(messages, "peer", Stringify(p), FALSE,
                                        delivered + 1)
              /\ UNCHANGED pendingVerify
         [] OTHER ->
              /\ pendingVerify' = pendingVerify \cup
                     {[conn |-> c, payload |-> p, seq |-> delivered + 1]}
              /\ UNCHANGED messages
    /\ UNCHANGED <<keyVars, peerRef, peerReady, targetPeerId, connVars,
                   pendingSend, wire, copyTimers, attachLog>>

\* handleIncoming after its awaits settled
VerifyDone(task) ==
    /\ task \in pendingVerify
    /\ pendingVerify' = pendingVerify \ {task}
    /\ IF Verifies(task.payload)
       THEN /\ statusMessage' =
                   IF FingerprintMismatch(task.payload, task.conn)
                   THEN "Peer fingerprint mismatch."
                   ELSE statusMessage
            /\ messages' = addMessage(messages, "peer", task.payload.text.v,
                                      TRUE, task.seq)
       ELSE /\ messages' = addMessage(messages, "peer", task.payload.text.v,
                                      FALSE, task.seq)
            /\ UNCHANGED statusMessage
    /\ UNCHANGED <<keyVars, peerRef, peerReady, targetPeerId, isConnected,
                   isConnecting, connectionRef, conns, pendingSend, received,
                   wire, copyTimers, attachLog>>

\* the first task id no suspended handleSendMessage call uses
FreeSendIds ==
    {i \in 1..(MaxMsgs + MaxLifeMsgs) : \A t \in pendingSend : t.id # i}
NewSendId == CHOOSE i \in FreeSendIds : \A j \in FreeSendIds : i <= j

\* MessageComposer.handleSubmit calling handleSendMessage, whose guard fails
SubmitIgnored(input) ==
    /\ Trim(input) # "" /\ isConnected
    /\ ~RefOpen(Ctl) \/ keypair = NoKeypair
    /\ UNCHANGED <<keyVars, peerRef, peerReady, targetPeerId, connVars,
                   msgVars, copyTimers, attachLog>>

\* MessageComposer.handleSubmit calling handleSendMessage, up to its first
\* await; the task remembers the connection it was requested on (history)
Submit(input, limit) ==
    /\ Trim(input) # "" /\ isConnected
    /\ RefOpen(Ctl)
    /\ keypair # NoKeypair
    /\ Outstanding < limit
    /\ pendingSend' = pendingSend \cup
           {[id |-> NewSendId, text |-> Trim(input), conn |-> connectionRef]}
    /\ UNCHANGED <<keyVars, peerRef, peerReady, targetPeerId, connVars,
                   messages, pendingVerify, received, wire, copyTimers,
                   attachLog>>

\* handleSendMessage after its awaits settled; signed = FALSE: readPrivateKey,
\* createMessage or sign rejected
SendResume(task, signed) ==
    /\ task \in pendingSend
    /\ signed => IsPrivateArmored(keypair.privateKeyArmored)
    /\ pendingSend' = pendingSend \ {task}
    /\ IF ~signed \/ connectionRef = NoConn
       THEN \* catch: signing failed, or connectionRef.current.send on null
            /\ statusMessage' = "Failed to sign message."
            /\ UNCHANGED <<isConnected, isConnecting, connectionRef, conns,
                           messages, wire>>
       ELSE LET c == connectionRef
                open == conns[c].st = "open"
                payload == Encode(keypair, task.text)
            IN \* send on a connection that is not open emits 'error' on it
               /\ Commit(IF open THEN Ctl
                         ELSE OnError(Ctl, "Connection is not open."))
               /\ wire' = wire \cup
                      {[conn |-> c, payload |-> payload, open |-> open,
                        text |-> task.text, for |-> task.conn]}
               /\ messages' = addMessage(messages, "me", task.text, TRUE, 0)
    /\ UNCHANGED <<keyVars, peerRef, peerReady, targetPeerId, pendingVerify,
                   received, copyTimers, attachLog>>

(* ---------------------------- specification ---------------------------- *)
\* the controller from construction: keys, endpoint, connections, messages
Next ==
    \/ InitKeys
    \/ KeysSettled
    \/ CreatePeer
    \/ PeerOpen
    \/ \E msg \in PeerErrorMessages : PeerError(msg)
    \/ \E p \in RemoteIds : PeerConnection(p)
    \/ \E v \in TargetInputs : SetTarget(v)
    \/ HandleConnectIgnored
    \/ HandleConnectNotReady
    \/ \E got \in BOOLEAN : HandleConnect(got)
    \/ HandleDisconnect
    \/ \E c \in ConnIds : ConnOpen(c)
    \/ \E c \in ConnIds : ConnClose(c)
    \/ \E c \in ConnIds, msg \in ConnErrorMessages : ConnError(c, msg)
    \/ \E c \in ConnIds, p \in LifePayloads : ConnData(c, p, MaxLifeMsgs)
    \/ \E task \in pendingVerify : VerifyDone(task)
    \/ \E input \in ComposerInputs : SubmitIgnored(input)
    \/ \E input \in ComposerInputs : Submit(input, MaxLifeMsgs)
    \/ \E task \in pendingSend, signed \in BOOLEAN : SendResume(task, signed)

Spec == Init /\ [][Next]_vars

\* the same with the clipboard handler, which writes nothing but the advisory
NextAll ==
    \/ Next
    \/ HandleCopyPeerIdIgnored
    \/ \E copied \in BOOLEAN : HandleCopyPeerId(copied)
    \/ CopyTimeout

SpecAll == Init /\ [][NextAll]_vars

\* The message handlers on one established connection: the state after the
\* keys were generated, the endpoint opened and an outgoing connection to
\* " fpR" opened (MsgStart is a reachable state of Spec).
MsgStart ==
    /\ nodeEnv = "production"
    /\ keysPc = "done"
    /\ keypair = StoredKeypair("L")
    /\ peerId = Fingerprint("L")
    /\ peerRef = TRUE
    /\ peerReady = TRUE
    /\ targetPeerId = " fpR"
    /\ isConnected = TRUE
    /\ isConnecting = FALSE
    /\ statusMessage = ""
    /\ connectionRef = 1
    /\ conns = [c \in ConnIds |->
                    IF c = 1
                    THEN [st |-> "open", peer |-> "fpR", closeCalled |-> FALSE]
                    ELSE NoConnection]
    /\ messages = <<>>
    /\ pendingVerify = {}
    /\ pendingSend = {}
    /\ received = <<>>
    /\ wire = {}
    /\ copyTimers = 0
    /\ attachLog = [c \in ConnIds |->
                        IF c = 1
                        THEN [attached |-> TRUE, prev |-> NoConn,
                              prevOpen |-> FALSE, prevClosed |-> FALSE]
                        ELSE NoAttach]

NextMsg ==
    \/ \E c \in ConnIds, p \in DataPayloads : ConnData(c, p, MaxMsgs)
    \/ \E task \in pendingVerify : VerifyDone(task)
    \/ \E input \in ComposerInputs : Submit(input, MaxMsgs)
    \/ \E task \in pendingSend, signed \in BOOLEAN : SendResume(task, signed)
    \/ \E c \in ConnIds : ConnClose(c)
    \/ \E c \in ConnIds, msg \in ConnErrorMessages : ConnError(c, msg)

SpecMsg == MsgStart /\ [][NextMsg]_vars

\* the same, every suspended verification settling in the end: the crypto
\* promises resolve or reject, and their continuations then run
SpecMsgFair ==
    SpecMsg /\ \A i \in 1..MaxMsgs :
        WF_vars(\E task \in pendingVerify : task.seq = i /\ VerifyDone(task))

(* ------------------------------- claims -------------------------------- *)
\* connections the controller has attached and that are not closed
Unclosed == {c \in ConnIds : conns[c].st \in {"connecting", "open"}}

\* C1: when the connection the controller holds is open and handleConnect or
\* an inbound offer brings a new connection, close() has been called on the
\* held one by the time the new one is attached; so whenever the new one is
\* open, the one it replaced is closed.
C1_ReplaceOnNewWhileOpen ==
    \A c \in ConnIds :
        (attachLog[c].attached /\ attachLog[c].prevOpen) =>
            /\ attachLog[c].prevClosed
            /\ conns[c].st = "open" =>
                   /\ conns[attachLog[c].prev].closeCalled
                   /\ conns[attachLog[c].prev].st = "closed"

\* C1 witness: a connection that replaced an open one has itself opened
C1_Witness ==
    \E c \in ConnIds :
        /\ attachLog[c].attached /\ attachLog[c].prevOpen
        /\ conns[c].st = "open"

\* C2: at most one attached connection is un-closed, and whenever a new
\* connection is acquired the one held before has been closed, whatever its
\* state was (the claim as stated; the code closes it only when it is open).
C2_SingleActiveConnection ==
    /\ Cardinality(Unclosed) <= 1
    /\ \A c \in ConnIds :
           (attachLog[c].attached /\ attachLog[c].prev # NoConn) =>
               attachLog[c].prevClosed

\* C3: a send whose signing succeeded hands the envelope to the transport
\* only if the held connection is open at that moment; otherwise nothing is
\* sent, no entry is added, no advisory is set and no state changes (the
\* claim as stated; the code tests the connection only before it signs).
C3_SendNoOpUnlessOpen ==
    [][(\E task \in pendingSend : SendResume(task, TRUE)) =>
          \/ RefOpen(Ctl)
          \/ UNCHANGED <<connVars, messages, wire>>]_vars

\* the payload is an object whose text, signature and publicKey are strings
AllStrings(p) ==
    /\ p.kind = "object"
    /\ p.text.t = "string" /\ p.signature.t = "string"
    /\ p.publicKey.t = "string"

\* the payload is an envelope whose signature is the embedded public key's
\* over exactly its text
SignedEnvelope(p) ==
    /\ AllStrings(p)
    /\ \E k \in KeyIds :
           /\ p.publicKey.v = PublicArmored(k)
           /\ p.signature.v = Sign(k, p.text.v)

\* the fingerprint of the key embedded in a signed envelope
SignerFingerprint(p) ==
    Fingerprint(CHOOSE k \in KeyIds : p.publicKey.v = PublicArmored(k))

\* the remote entries, and the suspended verifications, of 'data' event i
EntriesFor(i) ==
    {j \in 1..Len(messages) :
        messages[j].sender = "peer" /\ messages[j].seq = i}
PendingFor(i) == {t \in pendingVerify : t.seq = i}

\* a plain string, or an object lacking one of the three fields
LegacyOrLacking(p) ==
    \/ p.kind = "string"
    \/ /\ p.kind = "object"
       /\ Undefined \in {p.text, p.signature, p.publicKey}

\* C4 (state part): a remote entry is verified only if its payload was an
\* envelope signed by the embedded key over exactly the entry's text; a
\* payload whose verification was attempted and failed keeps or gets exactly
\* one entry, with the envelope's text and verified = FALSE.
C4_EntriesSound ==
    /\ \A j \in 1..Len(messages) :
           messages[j].sender = "peer" =>
               LET p == received[messages[j].seq].payload
               IN /\ messages[j].verified =>
                         SignedEnvelope(p) /\ messages[j].text = p.text.v
                  /\ (IsEnvelope(p) /\ ~SignedEnvelope(p)) =>
                         ~messages[j].verified /\ messages[j].text = p.text.v
    /\ \A i \in 1..Len(received) :
           LET p == received[i].payload
           IN (IsEnvelope(p) /\ ~SignedEnvelope(p)) =>
                  Cardinality(EntriesFor(i)) + Cardinality(PendingFor(i)) = 1

\* C4: verified = TRUE only for an envelope whose signature verifies over
\* the entry's text; a failed verification still yields the entry, with
\* verified = FALSE, and completing a verification changes neither the
\* connection handle nor the connected/connecting flags.
C4_VerifiedFlagSound ==
    /\ []C4_EntriesSound
    /\ [][(\E task \in pendingVerify : VerifyDone(task)) =>
              UNCHANGED <<connectionRef, isConnected, isConnecting, conns>>]_vars

\* C4 witness: a tampered envelope (text changed after signing) has been
\* entered unverified next to a verified one
C4_Witness ==
    \E i, j \in 1..Len(messages) :
        /\ messages[i].sender = "peer" /\ messages[i].verified
        /\ messages[j].sender = "peer" /\ ~messages[j].verified
        /\ LET p == received[messages[j].seq].payload
           IN /\ AllStrings(p)
              /\ p.signature.v = Sign("R", "hi") /\ p.text.v = "yo"

\* C5: when a signed envelope's verification completes, the entry is
\* appended with verified = TRUE; the advisory becomes the mismatch message
\* when the signer's fingerprint differs from the connection's remote
\* identifier, and is left as it was when they are equal.
C5_MismatchIsAdvisory ==
    [][\A task \in pendingVerify :
          (VerifyDone(task) /\ SignedEnvelope(task.payload)) =>
              /\ messages' = Append(messages,
                     [sender |-> "peer", text |-> task.payload.text.v,
                      verified |-> TRUE, seq |-> task.seq])
              /\ statusMessage' =
                     IF SignerFingerprint(task.payload) # conns[task.conn].peer
                     THEN "Peer fingerprint mismatch."
                     ELSE statusMessage]_vars

\* C5 witness: an envelope signed by a third party's key has been entered as
\* verified and the mismatch advisory is shown
C5_Witness ==
    /\ statusMessage = "Peer fingerprint mismatch."
    /\ \E j \in 1..Len(messages) :
           /\ messages[j].sender = "peer" /\ messages[j].verified
           /\ LET r == received[messages[j].seq]
              IN SignerFingerprint(r.payload) # conns[r.conn].peer

\* C6: every string payload, and every object lacking one of the fields,
\* has exactly one remote entry from the moment its 'data' callback returns:
\* unverified, showing the string or the stringified payload, and no
\* verification was started for it.
C6_LegacyBypassesVerification ==
    \A i \in 1..Len(received) :
        LET p == received[i].payload
        IN LegacyOrLacking(p) =>
               /\ PendingFor(i) = {}
               /\ Cardinality(EntriesFor(i)) = 1
               /\ \A j \in EntriesFor(i) :
                      /\ ~messages[j].verified
                      /\ messages[j].text =
                             IF p.kind = "string" THEN p.str ELSE Stringify(p)

\* C6 witness: a string and an object without a signature were both entered
C6_Witness ==
    /\ Len(received) = 2 /\ Len(messages) = 2
    /\ received[1].payload.kind = "string"
    /\ received[2].payload.kind = "object"
    /\ received[2].payload.signature = Undefined

\* C7: a received object is handled as an envelope (verification is started
\* and the entry shows the envelope's text) exactly when its three fields are
\* strings, empty ones included; every other object is entered as opaque
\* text (the claim as stated; the code tests the fields for truthiness).
C7_ClassificationExact ==
    \A i \in 1..Len(received) :
        LET p == received[i].payload
        IN p.kind = "object" =>
               IF AllStrings(p)
               THEN \/ PendingFor(i) # {}
                    \/ \E j \in EntriesFor(i) : messages[j].text = p.text.v
               ELSE /\ PendingFor(i) = {}
                    /\ \E j \in EntriesFor(i) :
                           /\ messages[j].text = Stringify(p)
                           /\ ~messages[j].verified

\* the texts the composer hands to handleSendMessage
SendableTexts == {Trim(x) : x \in ComposerInputs} \ {""}

\* {text: T, signature over exactly T by k's private key, publicKey: k's}
SignedWireMessage(k, T) == WireMessage(T, Sign(k, T), PublicArmored(k))

\* 'data' event i carries what a party with key k running this program puts
\* on the wire, on a connection whose remote identifier is k's fingerprint
RoundTrip(i) ==
    \E k \in KeyIds, T \in SendableTexts :
        /\ received[i].payload = SignedWireMessage(k, T)
        /\ conns[received[i].conn].peer = Fingerprint(k)

\* C8 (state part): what handleSendMessage put on the wire for text T is T,
\* the detached signature of the local private key over exactly T, and the
\* local public key, whose fingerprint is the local identifier; and such an
\* envelope, received on a connection to its signer, is pending or entered
\* once, with its text and verified = TRUE.
C8_EnvelopeRoundTrip ==
    /\ \A w \in wire :
           \E k \in KeyIds :
               /\ keypair = StoredKeypair(k) /\ peerId = Fingerprint(k)
               /\ w.text \in SendableTexts
               /\ w.payload = SignedWireMessage(k, w.text)
    /\ \A i \in 1..Len(received) :
           RoundTrip(i) =>
               /\ Cardinality(EntriesFor(i)) + Cardinality(PendingFor(i)) = 1
               /\ \A j \in EntriesFor(i) :
                      /\ messages[j].verified
                      /\ messages[j].text = received[i].payload.text.v

\* C8: the envelope on the wire is {T, signature over T, public key}; a
\* receiver whose connection leads to the signer eventually enters T as
\* verified, and completing that verification raises no mismatch advisory.
C8_EndToEndRoundTrip ==
    /\ []C8_EnvelopeRoundTrip
    /\ [][\A task \in pendingVerify :
              (VerifyDone(task) /\ RoundTrip(task.seq)) =>
                  statusMessage' = statusMessage]_vars
    /\ \A i \in 1..MaxMsgs :
           (i <= Len(received) /\ RoundTrip(i)) ~> (EntriesFor(i) # {})

\* C8 witness: the local party has sent an envelope, and one sent by the
\* remote party has been entered as verified
C8_Witness ==
    /\ \E w \in wire : w.open
    /\ \E i \in 1..Len(received) : RoundTrip(i) /\ EntriesFor(i) # {}

\* C9: an 'error' event on the connection the controller holds, connecting
\* or open, leaves both flags false, the handle cleared and the advisory the
\* error's message (a default text for an empty one); the endpoint stays
\* ready, so handleConnect passes its guards afterwards.
C9_ConnectionErrorResets ==
    [][\A c \in ConnIds, msg \in ConnErrorMessages :
          (connectionRef = c /\ ConnError(c, msg)) =>
              /\ ~isConnected' /\ ~isConnecting'
              /\ connectionRef' = NoConn
              /\ statusMessage' =
                     IF msg = "" THEN "Connection error." ELSE msg
              /\ peerRef' /\ peerReady'
              /\ targetPeerId' = targetPeerId]_vars

\* C9 witness: the only connection made is still open at the transport, and
\* the controller has dropped it with the error's message
C9_Witness ==
    /\ conns[1].st = "open" /\ ~conns[1].closeCalled
    /\ conns[2].st = "none"
    /\ connectionRef = NoConn /\ ~isConnected /\ ~isConnecting
    /\ statusMessage = "channel lost"
    /\ peerRef /\ peerReady

\* C10: after an endpoint 'error' event the controller is no longer
\* connecting and shows the error's message (the claim as stated; the code
\* only sets the advisory).
C10_EndpointErrorResets ==
    [][\A msg \in PeerErrorMessages :
          PeerError(msg) =>
              /\ ~isConnecting'
              /\ statusMessage' = IF msg = "" THEN "Peer error." ELSE msg]_vars

\* handleConnect is invoked with a non-empty target while the endpoint is not
\* ready: not created yet, or created and its 'open' event not yet received
ConnectWhileNotReady ==
    /\ Trim(targetPeerId) # ""
    /\ ~(peerRef /\ peerReady)
    /\ \/ HandleConnectIgnored
       \/ HandleConnectNotReady
       \/ \E got \in BOOLEAN : HandleConnect(got)

\* C11: no call of handleConnect with a non-empty target while the endpoint
\* is not ready can end otherwise than with no connection created or closed,
\* the connecting flag false and the "not ready" advisory set (the claim as
\* stated; the code returns silently while no endpoint has been created).
C11_NotReadyRejected ==
    ~ ENABLED (/\ ConnectWhileNotReady
               /\ ~(/\ conns' = conns /\ connectionRef' = connectionRef
                    /\ attachLog' = attachLog
                    /\ ~isConnecting'
                    /\ statusMessage' = "Peer not ready yet."))

\* SendResume ends in its catch block without having called send
SendDropped ==
    /\ UNCHANGED <<messages, wire>>
    /\ UNCHANGED <<connectionRef, isConnected, isConnecting, conns>>
    /\ statusMessage' = "Failed to sign message."

\* C12: when readPrivateKey, createMessage or sign rejects, nothing is sent,
\* no entry is appended, the "failed to sign" advisory is set and the handle
\* and flags stay as they were; and a send whose signing succeeded never sets
\* that advisory (the claim as stated; the code's catch block also covers the
\* call of send).
C12_SigningFailureDropsMessage ==
    /\ [][(\E task \in pendingSend : SendResume(task, FALSE)) =>
              SendDropped]_vars
    /\ [][(\E task \in pendingSend : SendResume(task, TRUE)) =>
              \/ statusMessage' # "Failed to sign message."
              \/ statusMessage' = statusMessage]_vars

\* C13: once generateKey or readKey has rejected, the keypair and the
\* identifier are unset, no endpoint exists, nothing has been sent and no
\* send is pending, and the advisory is the key-setup-failure message, in
\* every later state.
C13_KeySetupFailurePersists ==
    keysPc = "failed" =>
        /\ keypair = NoKeypair /\ peerId = ""
        /\ ~peerRef /\ ~peerReady
        /\ wire = {} /\ pendingSend = {}
        /\ statusMessage = "Key setup failed."

\* C13 witness: after the failure the user has typed a target (and may have
\* pressed Connect, Disconnect, Copy or Send, none of which changes a thing)
C13_Witness ==
    /\ keysPc = "failed"
    /\ targetPeerId = " fpR"
    /\ statusMessage = "Key setup failed."

\* C14: the remote entries stand in the log in the order in which their
\* payloads were delivered (the claim as stated; the code appends an
\* envelope's entry only when its verification has completed).
C14_DisplayFollowsDelivery ==
    \A i, j \in 1..Len(messages) :
        (/\ i < j
         /\ messages[i].sender = "peer" /\ messages[j].sender = "peer") =>
            messages[i].seq < messages[j].seq

\* a step removes no entry and rewrites none
LogAppendOnly ==
    /\ Len(messages') >= Len(messages)
    /\ \A j \in 1..Len(messages) : messages'[j] = messages[j]

C16_FailedStart ==
    [][HandleConnect(FALSE) =>
          /\ ~isConnecting'
          /\ statusMessage' = "Connection failed to start."
          /\ attachLog' = attachLog
          /\ \A c \in ConnIds : conns[c].st = "none" => conns'[c] = conns[c]
          /\ connectionRef' # NoConn =>
                 conns'[connectionRef'].closeCalled
                     = conns[connectionRef'].closeCalled]_vars

\* C16 witness: a failed start has closed the open connection the controller
\* held; the handle is cleared and no second connection was created
C16_Witness ==
    /\ statusMessage = "Connection failed to start."
    /\ conns[1].st = "closed" /\ conns[1].closeCalled
    /\ conns[2].st = "none"
    /\ connectionRef = NoConn /\ ~isConnecting /\ ~isConnected
    /\ messages = <<>> /\ pendingSend = {}

\* C17: handleDisconnect on a held connection, connecting or open, has
\* called close() on it and leaves both flags false and the handle cleared;
\* and no send is accepted on a handle whose connection was closed (the claim
\* as stated; a connection closed before it opened signals no close, and the
\* code clears the handle in the 'close' handler only).
C17_ExplicitDisconnect ==
    /\ [][\A c \in ConnIds :
              (/\ connectionRef = c
               /\ conns[c].st \in {"connecting", "open"}
               /\ HandleDisconnect) =>
                  /\ conns'[c].closeCalled
                  /\ ~isConnected' /\ ~isConnecting'
                  /\ connectionRef' = NoConn]_vars
    /\ [][(\E input \in ComposerInputs : Submit(input, MaxLifeMsgs)) =>
              ~conns[connectionRef].closeCalled]_vars

\* C18: whenever isConnected is true, the handle is set and refers to a
\* connection that is open (the claim as stated; the 'open' handler of a
\* connection sets the flag without looking at the handle).
C18_ConnectedFlagAgreesWithHandle ==
    isConnected => RefOpen(Ctl)

\* an event of connection c, which the controller attached and which has
\* since been superseded by the connection it holds now
StaleEvent(c) ==
    /\ attachLog[c].attached
    /\ connectionRef # NoConn /\ connectionRef # c
    /\ \/ ConnOpen(c)
       \/ ConnClose(c)
       \/ \E msg \in ConnErrorMessages : ConnError(c, msg)

\* C19: an open, close or error event of a superseded connection changes
\* neither the handle nor the connected and connecting flags (the claim as
\* stated; the handlers never compare their connection with the handle).
C19_StaleEventsIgnored ==
    [][\A c \in ConnIds :
          StaleEvent(c) =>
              UNCHANGED <<connectionRef, isConnected, isConnecting>>]_vars

\* C20: every envelope the transport took on an open connection went to the
\* connection that was held and open when its send was requested; and a send
\* continuation appends the local entry exactly when it called send (the
\* claim as stated; the code reads the handle again after signing).
C20_SentOnRequestedConnection ==
    /\ [](\A w \in wire : w.open => w.conn = w.for)
    /\ [][\A task \in pendingSend :
              (\E signed \in BOOLEAN : SendResume(task, signed)) =>
                  /\ wire' # wire =>
                         messages' = addMessage(messages, "me", task.text,
                                                TRUE, 0)
                  /\ messages' # messages =>
                         \E w \in wire' : w.text = task.text]_vars

\* MsgStart is a state the whole controller reaches
MsgStartUnreachable == ~MsgStart
====
